---------------------------- MODULE Spec2Model ----------------------------
(***************************************************************************)
(* A model of app.py: the /fetch handler (fetch_route), the identifier     *)
(* extractor (extract_video_id), the paginated comment fetcher             *)
(* (fetch_all_comments) and the sentiment labeler (analyze_comments).      *)
(*                                                                         *)
(* Python strings that the code inspects character by character (the raw   *)
(* video_url, the video id, api_key, format) are sequences of one-char     *)
(* strings.  Python's None is the value None below.                        *)
(***************************************************************************)
EXTENDS Integers, Sequences, FiniteSets, TLC

\* Python's None.  A one-element tuple whose element is no character, so it
\* differs from every string and can be compared with strings.
None == <<"None">>

\* `not x` for a value that is None or a string.
Falsy(x) == x = None \/ x = <<>>

Min(S) == CHOOSE x \in S : \A y \in S : x <= y

(***************************************************************************)
(* extract_video_id                                                        *)
(***************************************************************************)

\* {11} in both patterns.
IdLen == 11

UpperSeq == <<"A","B","C","D","E","F","G","H","I","J","K","L","M",
              "N","O","P","Q","R","S","T","U","V","W","X","Y","Z">>
LowerSeq == <<"a","b","c","d","e","f","g","h","i","j","k","l","m",
              "n","o","p","q","r","s","t","u","v","w","x","y","z">>
Digits == {"0","1","2","3","4","5","6","7","8","9"}

Range(f) == {f[i] : i \in DOMAIN f}

\* The character class [A-Za-z0-9_-].
IdChars == Range(UpperSeq) \cup Range(LowerSeq) \cup Digits \cup {"_", "-"}

\* The alternatives of (?:v=|v\/|embed\/|youtu\.be\/|\/v\/), in order.
Markers == << <<"v","=">>,
              <<"v","/">>,
              <<"e","m","b","e","d","/">>,
              <<"y","o","u","t","u",".","b","e","/">>,
              <<"/","v","/">> >>

\* The literal m matches s at position i.
LiteralAt(s, i, m) ==
    /\ i + Len(m) - 1 <= Len(s)
    /\ \A k \in 1..Len(m) : s[i + k - 1] = m[k]

\* [A-Za-z0-9_-]{11} matches s at position j.
TokenAt(s, j) ==
    /\ j >= 1
    /\ j + IdLen - 1 <= Len(s)
    /\ \A k \in 0..(IdLen - 1) : s[j + k] \in IdChars

\* Alternative k of the marker pattern, then the 11-character group, at i.
MarkerMatchAt(s, i, k) ==
    /\ LiteralAt(s, i, Markers[k])
    /\ TokenAt(s, i + Len(Markers[k]))

\* SearchMarker returning group(0), the marker included, for group(1).
SearchMarkerGroup0(s) ==
    LET hits == {i \in 1..Len(s) : \E k \in DOMAIN Markers : MarkerMatchAt(s, i, k)}
    IN  IF hits = {} THEN None
        ELSE LET i == Min(hits)
                 k == Min({a \in DOMAIN Markers : MarkerMatchAt(s, i, a)})
             IN  SubSeq(s, i, i + Len(Markers[k]) + IdLen - 1)

\* re.search(patterns[0], s): the leftmost position at which an alternative
\* matches, the first such alternative there; group(1), or None.
SearchMarker(s) ==
    LET hits == {i \in 1..Len(s) : \E k \in DOMAIN Markers : MarkerMatchAt(s, i, k)}
    IN  IF hits = {} THEN None
        ELSE LET i == Min(hits)
                 k == Min({a \in DOMAIN Markers : MarkerMatchAt(s, i, a)})
                 j == i + Len(Markers[k])
             IN  SubSeq(s, j, j + IdLen - 1)

\* Where $ matches: at the end of s, and just before a final newline.
EndPositions(s) ==
    {Len(s)} \cup (IF Len(s) >= 1 /\ s[Len(s)] = "\n" THEN {Len(s) - 1} ELSE {})

\* SearchTail with {1,11} for {11}: a shorter tail of id characters matches.
SearchTailUpTo11(s) ==
    LET hits == {j \in 1..Len(s) :
                    /\ \A k \in j..Len(s) : s[k] \in IdChars
                    /\ Len(s) - j + 1 <= IdLen}
    IN  IF hits = {} THEN None
        ELSE SubSeq(s, Min(hits), Len(s))

\* SearchTail with .{11} for the character class: the last 11 characters,
\* whatever they are.
SearchTailAnyChars(s) ==
    IF Len(s) >= IdLen THEN SubSeq(s, Len(s) - IdLen + 1, Len(s)) ELSE None
\* re.search(patterns[1], s): ([A-Za-z0-9_-]{11})$ ; group(1), or None.
SearchTail(s) ==
    LET hits == {j \in 1..Len(s) : TokenAt(s, j) /\ (j + IdLen - 1) \in EndPositions(s)}
    IN  IF hits = {} THEN None
        ELSE SubSeq(s, Min(hits), Min(hits) + IdLen - 1)

\* The second pattern tried before the first.
extract_video_id_tail_first(url) ==
    IF Falsy(url) THEN None
    ELSE LET m2 == SearchTail(url)
         IN  IF m2 # None THEN m2
             ELSE LET m1 == SearchMarker(url)
                  IN  IF m1 # None THEN m1 ELSE None
\* The patterns are tried in order; the first that matches gives group(1).
extract_video_id(url) ==
    IF Falsy(url) THEN None
    ELSE LET m1 == SearchMarker(url)
         IN  IF m1 # None THEN m1
             ELSE LET m2 == SearchTail(url)
                  IN  IF m2 # None THEN m2 ELSE None

(***************************************************************************)
(* The remote API and the scorer (the environment)                         *)
(***************************************************************************)

\* Bounds of the model: the longest chain of pages the remote API serves for
\* one invocation, and the most items it serves on these pages together.
MaxPages == 3
MaxItems == 4

\* Display texts.
Texts == {"a", "b"}

\* An item of a page.  complete = FALSE stands for an item in which one of
\* the keys snippet / topLevelComment / snippet / textDisplay is absent.
Items ==
    {[complete |-> TRUE, textDisplay |-> t] : t \in Texts}
        \cup {[complete |-> FALSE, textDisplay |-> ""]}

\* The item lists of at most n items.
ItemLists(n) == UNION {[1..k -> Items] : k \in 0..n}

\* The continuation token the remote API issues with its n-th page.
Token(n) == [k \in 1..n |-> "t"]

\* HTTP status codes, as the decimal strings an f-string prints.
OkStatus == "200"
ErrorStatuses == {"403"}

\* error.message of an error payload.
Messages == {"quota exceeded"}

\* The "error" member of a parsed body: absent, without a message, with one.
ErrPayloads ==
    {[has_error |-> FALSE, has_message |-> FALSE, message |-> ""],
     [has_error |-> TRUE,  has_message |-> FALSE, message |-> ""]}
        \cup {[has_error |-> TRUE, has_message |-> TRUE, message |-> m] : m \in Messages}

NoErr == [has_error |-> FALSE, has_message |-> FALSE, message |-> ""]

\* What session.get and resp.json() can produce for one request.
\* raised: session.get raised (timeout, connection failure);
\* json: the body parses; next: nextPageToken (None when absent or null).
Response(raised, json, status, err, items, next) ==
    [raised |-> raised, json |-> json, status |-> status, error |-> err,
     items |-> items, next |-> next]

\* Compound polarity scores, in units of 0.0001.
Scores == {-1, 0, 1}

(***************************************************************************)
(* State                                                                   *)
(***************************************************************************)

VARIABLES
    data,       \* fetch_route: request.get_json(silent=True)
    pc,         \* where the invocation stands
    url,        \* fetch_route: video_url / extract_video_id: url
    vid,        \* fetch_route: vid
    params,     \* fetch_all_comments: params
    comments,   \* fetch_all_comments: comments
    sent,       \* the requests issued so far, each the params it carried
    got,        \* the responses received so far
    compound,   \* the compound scores sia returned, one per scored comment
    df,         \* analyze_comments: rows
    reply       \* what fetch_route returns

vars == <<data, pc, url, vid, params, comments, sent, got, compound, df, reply>>

NoReply == [status |-> "", error |-> <<>>, body |-> <<>>, download_name |-> ""]
NoParams == [part |-> "", videoId |-> None, textFormat |-> "", key |-> None,
             maxResults |-> 0, pageToken |-> None]

\* jsonify({"error": msg}), code
ErrorReply(code, msg) ==
    [status |-> code, error |-> msg, body |-> <<>>, download_name |-> ""]

\* send_file(buffer, download_name=name)
FileReply(rows, name) ==
    [status |-> "200", error |-> <<>>, body |-> rows, download_name |-> name]

(***************************************************************************)
(* fetch_route: the checks before the fetch                                *)
(***************************************************************************)

\* str.lower() of one character and of a string.
LowerChar(c) ==
    IF \E i \in DOMAIN UpperSeq : UpperSeq[i] = c
    THEN LowerSeq[CHOOSE i \in DOMAIN UpperSeq : UpperSeq[i] = c]
    ELSE c

Lower(s) == [i \in DOMAIN s |-> LowerChar(s[i])]

CSV  == <<"c","s","v">>
JSON == <<"j","s","o","n">>
XLSX == <<"x","l","s","x">>
HTML == <<"h","t","m","l">>
SupportedFormats == {CSV, JSON, XLSX, HTML}

\* A JSON value that is neither a string nor falsy, the number 5 say.  Like
\* None, a one-element tuple that differs from every string.
JsonNumber == <<"5 (a number)">>

\* (data.get("format") or "csv").lower(), for a format that is a string or
\* falsy.
FileFormat(d) == Lower(IF Falsy(d.format) THEN CSV ELSE d.format)

\* download_name of the file sent back, per format.
DownloadName(fmt) ==
    CASE fmt = XLSX -> "yt_comments.xlsx"
      [] fmt = CSV  -> "yt_comments.csv"
      [] fmt = JSON -> "yt_comments.json"
      [] OTHER      -> "yt_comments.html"

\* The payloads a client may post.  json: "invalid" (get_json gives None),
\* "empty" ({}), "object"; a member that is None is absent or null.
ApiKeys == {None, <<>>, <<"k","e","y">>}

WatchUrl ==
    <<"w","a","t","c","h","?","v","=","d","Q","w","4","w","9","W","g","X","c","Q">>

VideoUrls ==
    {None, <<>>,
     <<"a","b","c">>,
     <<"h","t","t","p","s",":","/","/","y","o","u","t","u",".","b","e","/">>,
     <<"d","Q","w","4","w","9","W","g","X","c","Q","?","t","=","1">>,
     WatchUrl}

Formats == {None, <<"p","d","f">>, JsonNumber}

Payloads ==
    {[json |-> j, api_key |-> None, video_url |-> None, format |-> None] :
        j \in {"invalid", "empty"}}
    \cup {[json |-> "object", api_key |-> k, video_url |-> u, format |-> f] :
            k \in ApiKeys, u \in VideoUrls, f \in Formats}

ExtractError ==
    <<"Could not extract video id. Provide a full YouTube URL or video id.">>

\* The reply to a request whose handler raised outside its try block.
Unhandled == ErrorReply("500", <<"Internal Server Error">>)

\* The checks of fetch_route on the payload: the 400 reply, or NoReply when
\* they all pass.  file_format is computed before api_key is tested, and
\* .lower() of a number raises AttributeError, which nothing catches.
Rejection(d) ==
    IF d.json # "object" THEN ErrorReply("400", <<"Invalid JSON payload">>)
    ELSE IF d.format = JsonNumber THEN Unhandled
    ELSE IF Falsy(d.api_key) THEN ErrorReply("400", <<"Missing api_key">>)
    ELSE IF Falsy(d.video_url) THEN ErrorReply("400", <<"Missing video_url">>)
    ELSE IF FileFormat(d) \notin SupportedFormats
         THEN ErrorReply("400", <<"Unsupported format">>)
    ELSE NoReply

\* fetch_route, the payload checks.
CheckPayload ==
    /\ pc = "start"
    /\ IF Rejection(data) = NoReply
       THEN /\ pc' = "extract"
            /\ url' = data.video_url
            /\ reply' = reply
       ELSE /\ pc' = "done"
            /\ url' = url
            /\ reply' = Rejection(data)
    /\ UNCHANGED <<data, vid, params, comments, sent, got, compound, df>>

\* ExtractId without the `if not vid` check: the fetch starts whatever vid is.
ExtractIdUnchecked ==
    /\ pc = "extract"
    /\ vid' = extract_video_id(url)
    /\ pc' = "fetch"
    /\ UNCHANGED <<data, url, params, comments, sent, got, compound, df, reply>>

\* fetch_route: vid = extract_video_id(video_url); if not vid: 400.
ExtractId ==
    /\ pc = "extract"
    /\ vid' = extract_video_id(url)
    /\ IF Falsy(vid')
       THEN /\ pc' = "done"
            /\ reply' = ErrorReply("400", ExtractError)
       ELSE /\ pc' = "fetch"
            /\ reply' = reply
    /\ UNCHANGED <<data, url, params, comments, sent, got, compound, df>>

(***************************************************************************)
(* fetch_all_comments                                                      *)
(***************************************************************************)

\* max_results_per_page
MaxResultsPerPage == 100

\* The parameters of the first request; pageToken is not set yet.
InitialParams(video_id, api_key) ==
    [part |-> "snippet", videoId |-> video_id, textFormat |-> "plainText",
     key |-> api_key, maxResults |-> MaxResultsPerPage, pageToken |-> None]

\* fetch_all_comments, up to the loop.
StartFetch ==
    /\ pc = "fetch"
    /\ params' = InitialParams(vid, data.api_key)
    /\ comments' = <<>>
    /\ pc' = "request"
    /\ UNCHANGED <<data, url, vid, sent, got, compound, df, reply>>

\* SendRequest that issues every request twice.
SendRequestTwice ==
    /\ pc = "request"
    /\ sent' = Append(Append(sent, params), params)
    /\ pc' = "await"
    /\ UNCHANGED <<data, url, vid, params, comments, got, compound, df, reply>>
\* session.get(base_url, params=params, timeout=15): the request leaves.
SendRequest ==
    /\ pc = "request"
    /\ sent' = Append(sent, params)
    /\ pc' = "await"
    /\ UNCHANGED <<data, url, vid, params, comments, got, compound, df, reply>>

\* except Exception as exc: return jsonify({"error": str(exc)}), 500
Fail(msg) ==
    /\ pc' = "done"
    /\ reply' = ErrorReply("500", msg)

\* TransportFailure with a retry: the failed request is issued again.
TransportFailureRetry ==
    /\ pc = "await"
    /\ got' = Append(got, Response(TRUE, FALSE, "", NoErr, <<>>, None))
    /\ pc' = "request"
    /\ UNCHANGED <<data, url, vid, params, comments, sent, compound, df, reply>>

\* session.get raises: the timeout passed, or the transport failed.
TransportFailure ==
    /\ pc = "await"
    /\ got' = Append(got, Response(TRUE, FALSE, "", NoErr, <<>>, None))
    /\ Fail(<<"transport failure">>)
    /\ UNCHANGED <<data, url, vid, params, comments, sent, compound, df>>

\* InvalidJson with the status tested before the body is parsed: a non-200
\* response fails as an API error, its body unread.
InvalidJsonStatusFirst ==
    /\ pc = "await"
    /\ \E st \in {OkStatus} \cup ErrorStatuses :
          /\ got' = Append(got, Response(FALSE, FALSE, st, NoErr, <<>>, None))
          /\ IF st = OkStatus
             THEN Fail(<<"Invalid JSON response from YouTube API">>)
             ELSE Fail(<<"YouTube API error: ", "HTTP ", st>>)
    /\ UNCHANGED <<data, url, vid, params, comments, sent, compound, df>>
\* resp.json() raises ValueError, whatever the status.
InvalidJson ==
    /\ pc = "await"
    /\ \E st \in {OkStatus} \cup ErrorStatuses :
          got' = Append(got, Response(FALSE, FALSE, st, NoErr, <<>>, None))
    /\ Fail(<<"Invalid JSON response from YouTube API">>)
    /\ UNCHANGED <<data, url, vid, params, comments, sent, compound, df>>

\* ErrorMessage that never reads the payload's message.
ErrorMessageGeneric(resp) == <<"HTTP ", resp.status>>

\* ErrorMessage with a fixed text for the fallback: err.get("message",
\* "Unknown error").
ErrorMessageFixedFallback(resp) ==
    IF resp.error.has_error /\ resp.error.has_message
    THEN <<resp.error.message>>
    ELSE <<"Unknown error">>
\* err.get("message", f"HTTP {resp.status_code}")
ErrorMessage(resp) ==
    IF resp.error.has_error /\ resp.error.has_message
    THEN <<resp.error.message>>
    ELSE <<"HTTP ", resp.status>>

\* The message of the RuntimeError raised for a non-200 response.
ApiErrorText(resp) == <<"YouTube API error: ">> \o ErrorMessage(resp)

\* The cursors the remote API may put on its n-th page: none, an empty one,
\* or (while its chain goes on) the token of the next page.
Cursors(n) == {None, <<>>} \cup (IF n < MaxPages THEN {Token(n)} ELSE {})

\* The items served on the pages so far.
RECURSIVE ItemsServed(_)
ItemsServed(responses) ==
    IF responses = <<>> THEN 0
    ELSE Len(Head(responses).items) + ItemsServed(Tail(responses))

\* The most items the next page can hold: maxResults, and what the remote
\* API has left to serve.
PageRoom == Min({params.maxResults, MaxItems - ItemsServed(got)})

\* A parsed body with a status other than 200.  Whatever else the body
\* holds, an item and a cursor perhaps, is not read.
ApiError ==
    /\ pc = "await"
    /\ \E st \in ErrorStatuses, e \in ErrPayloads,
          items \in ItemLists(Min({1, PageRoom})), next \in Cursors(Len(got) + 1) :
          LET resp == Response(FALSE, TRUE, st, e, items, next)
          IN  /\ got' = Append(got, resp)
              /\ Fail(ApiErrorText(resp))
    /\ UNCHANGED <<data, url, vid, params, comments, sent, compound, df>>

\* AppendItem with insert(0, txt) for append(txt).
AppendItemFront(acc, it) ==
    IF it.complete THEN <<it.textDisplay>> \o acc ELSE acc

\* AppendItem that appends a placeholder for an item without the field.
AppendItemPlaceholder(acc, it) ==
    IF it.complete THEN Append(acc, it.textDisplay) ELSE Append(acc, "")

\* it["snippet"]["topLevelComment"]["snippet"]["textDisplay"], appended; an
\* item that raises KeyError appends nothing.
AppendItem(acc, it) ==
    IF it.complete THEN Append(acc, it.textDisplay) ELSE acc

\* for it in items: ...
RECURSIVE Accumulate(_, _)
Accumulate(acc, items) ==
    IF items = <<>> THEN acc
    ELSE Accumulate(AppendItem(acc, Head(items)), Tail(items))

\* LastPage with the test inverted: `if next_token: break`.
LastPageInverted(next) == ~Falsy(next)

\* if not next_token: break
LastPage(next) == Falsy(next)

\* PageOk that keeps the first cursor it was given: params.setdefault(
\* "pageToken", next_token).
PageOkFirstCursor ==
    /\ pc = "await"
    /\ \E items \in ItemLists(PageRoom), next \in Cursors(Len(got) + 1) :
          LET resp == Response(FALSE, TRUE, OkStatus, NoErr, items, next)
          IN  /\ got' = Append(got, resp)
              /\ comments' = Accumulate(comments, resp.items)
              /\ IF LastPage(resp.next)
                 THEN /\ pc' = "analyze"
                      /\ params' = params
                 ELSE /\ pc' = "request"
                      /\ params' = IF params.pageToken = None
                                   THEN [params EXCEPT !.pageToken = resp.next]
                                   ELSE params
    /\ UNCHANGED <<data, url, vid, sent, compound, df, reply>>

\* PageOk that rebinds params to a dict holding the cursor alone:
\* params = {"pageToken": next_token}.
PageOkRebinds ==
    /\ pc = "await"
    /\ \E items \in ItemLists(PageRoom), next \in Cursors(Len(got) + 1) :
          LET resp == Response(FALSE, TRUE, OkStatus, NoErr, items, next)
          IN  /\ got' = Append(got, resp)
              /\ comments' = Accumulate(comments, resp.items)
              /\ IF LastPage(resp.next)
                 THEN /\ pc' = "analyze"
                      /\ params' = params
                 ELSE /\ pc' = "request"
                      /\ params' = [NoParams EXCEPT !.pageToken = resp.next]
    /\ UNCHANGED <<data, url, vid, sent, compound, df, reply>>
\* A parsed body with status 200: the items are accumulated, and the loop
\* goes on with the cursor or returns.
PageOk ==
    /\ pc = "await"
    /\ \E items \in ItemLists(PageRoom), next \in Cursors(Len(got) + 1) :
          LET resp == Response(FALSE, TRUE, OkStatus, NoErr, items, next)
          IN  /\ got' = Append(got, resp)
              /\ comments' = Accumulate(comments, resp.items)
              /\ IF LastPage(resp.next)
                 THEN /\ pc' = "analyze"
                      /\ params' = params
                 ELSE /\ pc' = "request"
                      /\ params' = [params EXCEPT !.pageToken = resp.next]
    /\ UNCHANGED <<data, url, vid, sent, compound, df, reply>>

(***************************************************************************)
(* analyze_comments                                                        *)
(***************************************************************************)

\* Label with > for >=.
LabelStrict(score) == IF score > 0 THEN 1 ELSE 0

\* label = 1 if score >= 0 else 0
Label(score) == IF score >= 0 THEN 1 ELSE 0

\* for c in comments: rows.append({"comment": c, "sentiment": label})
RECURSIVE LabelRows(_, _, _)
LabelRows(rows, cs, scores) ==
    IF cs = <<>> THEN rows
    ELSE LabelRows(Append(rows, [comment |-> Head(cs), sentiment |-> Label(Head(scores))]),
                   Tail(cs), Tail(scores))

\* analyze_comments that keeps one row per distinct comment.
RECURSIVE LabelDistinct(_, _, _)
LabelDistinct(rows, cs, scores) ==
    IF cs = <<>> THEN rows
    ELSE LabelDistinct(
            IF \E i \in DOMAIN rows : rows[i].comment = Head(cs)
            THEN rows
            ELSE Append(rows, [comment |-> Head(cs), sentiment |-> Label(Head(scores))]),
            Tail(cs), Tail(scores))

analyze_comments_distinct(cs, scores) == LabelDistinct(<<>>, cs, scores)

analyze_comments(cs, scores) == LabelRows(<<>>, cs, scores)

\* The scorer is a function of the text: what it returns for each of cs.
ScoresOf(cs, polarity) == [i \in DOMAIN cs |-> polarity[cs[i]]]

\* fetch_route after the fetch: the comments are labeled and the file is sent.
Analyze ==
    /\ pc = "analyze"
    /\ \E polarity \in [Texts -> Scores] :
          /\ compound' = ScoresOf(comments, polarity)
          /\ df' = analyze_comments(comments, compound')
    /\ reply' = FileReply(df', DownloadName(FileFormat(data)))
    /\ pc' = "done"
    /\ UNCHANGED <<data, url, vid, params, comments, sent, got>>

(***************************************************************************)
(* The pipeline                                                            *)
(***************************************************************************)

Init ==
    /\ data \in Payloads
    /\ pc = "start"
    /\ url = None
    /\ vid = None
    /\ params = NoParams
    /\ comments = <<>>
    /\ sent = <<>>
    /\ got = <<>>
    /\ compound = <<>>
    /\ df = <<>>
    /\ reply = NoReply

Next ==
    \/ CheckPayload
    \/ ExtractId
    \/ StartFetch
    \/ SendRequest
    \/ TransportFailure
    \/ InvalidJson
    \/ ApiError
    \/ PageOk
    \/ Analyze

Spec == Init /\ [][Next]_vars

\* The handler runs on one thread, synchronously: a step that can be taken
\* is taken, and session.get comes back with a response or, after its
\* timeout of 15 seconds, with an exception.
SpecLive == Init /\ [][Next]_vars /\ WF_vars(Next)

(***************************************************************************)
(* extract_video_id on its own: the inputs are drawn, ExtractId applies it *)
(***************************************************************************)

Concat(a, b, c) == a \o b \o c

\* The supported URL shapes, each up to the place of the token.
WatchPrefix == <<"h","t","t","p","s",":","/","/","w","w","w",".","y","o","u","t","u","b","e",
                 ".","c","o","m","/","w","a","t","c","h","?","v","=">>
ShortPrefix == <<"h","t","t","p","s",":","/","/","y","o","u","t","u",".","b","e","/">>
EmbedPrefix == <<"h","t","t","p","s",":","/","/","w","w","w",".","y","o","u","t","u","b","e",
                 ".","c","o","m","/","e","m","b","e","d","/">>
VPrefix     == <<"h","t","t","p","s",":","/","/","w","w","w",".","y","o","u","t","u","b","e",
                 ".","c","o","m","/","v","/">>
UrlPrefixes ==
    {WatchPrefix, ShortPrefix, EmbedPrefix, VPrefix,
     <<"w","a","t","c","h","?","v","=">>,
     <<"y","o","u","t","u",".","b","e","/">>,
     <<"/","e","m","b","e","d","/">>,
     <<"/","v","/">>}

\* Further query parameters after the token.
QuerySuffixes ==
    {<<"&","t","=","1","s">>,
     <<"?","t","=","1">>,
     <<"&","v","=","A","A","A","A","A","A","A","A","A","A","A">>}

\* Tokens: every 11-character string over two id characters, and two ids as
\* they occur.
TokenChars == {"v", "-"}
Tokens ==
    [1..IdLen -> TokenChars]
        \cup {<<"d","Q","w","4","w","9","W","g","X","c","Q">>,
              <<"_","e","m","b","e","d","Z","0","9","y","o">>}

\* Inputs of a supported shape: a bare id, or a URL shape with the id and
\* perhaps further query parameters.
ShapedInputs ==
    Tokens \cup {Concat(p, t, q) : p \in UrlPrefixes, t \in Tokens,
                                   q \in QuerySuffixes \cup {<<>>}}

\* Every string of fewer than 11 characters over these three.
ShortChars == {"v", "=", "/"}
ShortInputs == UNION {[1..n -> ShortChars] : n \in 0..(IdLen - 1)}

\* Inputs in which no marker is followed by 11 id characters: an id after
\* other text, an id before a final newline, a marker followed by too short
\* a token and an id at the end, and text whose last 11 characters are not
\* all id characters.
SampleIds == {<<"d","Q","w","4","w","9","W","g","X","c","Q">>,
              <<"_","e","m","b","e","d","Z","0","9","y","o">>}
TailInputs ==
    {<<"i","d",":"," ">> \o t : t \in SampleIds}
      \cup {t \o <<"\n">> : t \in SampleIds}
      \cup {<<"w","a","t","c","h","?","v","=","a","b","&","x","=">> \o t : t \in SampleIds}
      \cup {<<"n","o"," ","i","d"," ","h","e","r","e","!","!">>,
            <<"h","t","t","p","s",":","/","/","y","o","u","t","u",".","b","e","/">>,
            <<"d","Q","w","4","w","9","W","g","X","c","Q","\n","\n">>}

ExtractInputs == {None} \cup ShortInputs \cup ShapedInputs \cup TailInputs

NoData == [json |-> "invalid", api_key |-> None, video_url |-> None, format |-> None]

InitExtract ==
    /\ url \in ExtractInputs
    /\ pc = "extract"
    /\ data = NoData
    /\ vid = None
    /\ params = NoParams
    /\ comments = <<>>
    /\ sent = <<>>
    /\ got = <<>>
    /\ compound = <<>>
    /\ df = <<>>
    /\ reply = NoReply

SpecExtract == InitExtract /\ [][ExtractId]_vars

(***************************************************************************)
(* analyze_comments on its own: the comments are drawn, Analyze labels     *)
(***************************************************************************)

\* Bound of the model: the longest comment list labeled on its own.
MaxComments == 3

CommentLists == UNION {[1..n -> Texts] : n \in 0..MaxComments}

LabelPayloads ==
    {[json |-> "object", api_key |-> <<"k","e","y">>, video_url |-> WatchUrl, format |-> f] :
        f \in {None, CSV, JSON, HTML, <<"X","L","S","X">>}}

InitLabel ==
    /\ comments \in CommentLists
    /\ data \in LabelPayloads
    /\ pc = "analyze"
    /\ url = None
    /\ vid = None
    /\ params = NoParams
    /\ sent = <<>>
    /\ got = <<>>
    /\ compound = <<>>
    /\ df = <<>>
    /\ reply = NoReply

SpecLabel == InitLabel /\ [][Analyze]_vars

(***************************************************************************)
(* fetch_route up to the first request, over a wider set of payloads       *)
(***************************************************************************)

RouteFormats ==
    {None, <<>>, CSV, HTML, JsonNumber,
     <<"X","L","S","X">>, <<"J","s","o","n">>, <<"p","d","f">>}

RoutePayloads ==
    {[json |-> j, api_key |-> None, video_url |-> None, format |-> None] :
        j \in {"invalid", "empty"}}
    \cup {[json |-> "object", api_key |-> k, video_url |-> u, format |-> f] :
            k \in ApiKeys, u \in VideoUrls, f \in RouteFormats}

InitRoute ==
    /\ data \in RoutePayloads
    /\ pc = "start"
    /\ url = None
    /\ vid = None
    /\ params = NoParams
    /\ comments = <<>>
    /\ sent = <<>>
    /\ got = <<>>
    /\ compound = <<>>
    /\ df = <<>>
    /\ reply = NoReply

NextRoute ==
    \/ CheckPayload
    \/ ExtractId
    \/ StartFetch
    \/ SendRequest

SpecRoute == InitRoute /\ [][NextRoute]_vars

(***************************************************************************)
(* Two invocations of the handler, interleaved.  Both have passed the      *)
(* checks of fetch_route and stand before fetch_all_comments.  Here every  *)
(* variable holds one value for each invocation, and params and comments,  *)
(* the locals of fetch_all_comments, one value for each frame.             *)
(***************************************************************************)

Invocations == {1, 2}

\* Bounds: the longest chain of pages served to one invocation, and the
\* most items served to it on these pages together.
PairPages == 2
PairItems == 2

\* Frame with one frame for all invocations: params and comments as
\* module-level names.
FrameShared(i) == 1

\* The frame that holds the locals of invocation i: params, comments and
\* next_token are created by the call, so every call has its own.
Frame(i) == i

\* The payloads of the two invocations: different videos, keys and formats.
PairPayload(i) ==
    IF i = 1
    THEN [json |-> "object", api_key |-> <<"k","e","y","1">>,
          video_url |-> WatchUrl, format |-> None]
    ELSE [json |-> "object", api_key |-> <<"k","e","y","2">>,
          video_url |-> <<"y","o","u","t","u",".","b","e","/",
                          "_","e","m","b","e","d","Z","0","9","y","o">>,
          format |-> JSON]

\* The comments of the first video all read "a", those of the second "b".
PairText(i) == IF i = 1 THEN "a" ELSE "b"

PairItemLists(i, n) ==
    {[k \in 1..m |-> [complete |-> TRUE, textDisplay |-> PairText(i)]] : m \in 0..n}

PairCursors(n) == {None} \cup (IF n < PairPages THEN {Token(n)} ELSE {})

\* The responses that fail a fetch: session.get raised, the body does not
\* parse, the status is not 200.
PairFailures ==
    {Response(TRUE, FALSE, "", NoErr, <<>>, None),
     Response(FALSE, FALSE, OkStatus, NoErr, <<>>, None)}
        \cup {Response(FALSE, TRUE, st, e, <<>>, None) :
                st \in ErrorStatuses,
                e \in {[has_error |-> TRUE, has_message |-> TRUE, message |-> m] :
                         m \in Messages}}

\* str(exc) of what fetch_all_comments raises on a failing response.
FailureText(resp) ==
    IF resp.raised THEN <<"transport failure">>
    ELSE IF ~resp.json THEN <<"Invalid JSON response from YouTube API">>
    ELSE ApiErrorText(resp)

InitPair ==
    /\ data = [i \in Invocations |-> PairPayload(i)]
    /\ url = [i \in Invocations |-> PairPayload(i).video_url]
    /\ vid = [i \in Invocations |-> extract_video_id(PairPayload(i).video_url)]
    /\ pc = [i \in Invocations |-> "fetch"]
    /\ params = [f \in Invocations |-> NoParams]
    /\ comments = [f \in Invocations |-> <<>>]
    /\ sent = [i \in Invocations |-> <<>>]
    /\ got = [i \in Invocations |-> <<>>]
    /\ compound = [i \in Invocations |-> <<>>]
    /\ df = [i \in Invocations |-> <<>>]
    /\ reply = [i \in Invocations |-> NoReply]

PairStartFetch(i) ==
    /\ pc[i] = "fetch"
    /\ params' = [params EXCEPT ![Frame(i)] = InitialParams(vid[i], data[i].api_key)]
    /\ comments' = [comments EXCEPT ![Frame(i)] = <<>>]
    /\ pc' = [pc EXCEPT ![i] = "request"]
    /\ UNCHANGED <<data, url, vid, sent, got, compound, df, reply>>

PairSendRequest(i) ==
    /\ pc[i] = "request"
    /\ sent' = [sent EXCEPT ![i] = Append(@, params[Frame(i)])]
    /\ pc' = [pc EXCEPT ![i] = "await"]
    /\ UNCHANGED <<data, url, vid, params, comments, got, compound, df, reply>>

\* The fetch raises; fetch_route answers with 500 and str(exc).
PairFailure(i) ==
    /\ pc[i] = "await"
    /\ \E resp \in PairFailures :
          /\ got' = [got EXCEPT ![i] = Append(@, resp)]
          /\ reply' = [reply EXCEPT ![i] = ErrorReply("500", FailureText(resp))]
    /\ pc' = [pc EXCEPT ![i] = "done"]
    /\ UNCHANGED <<data, url, vid, params, comments, sent, compound, df>>

PairRoom(i) ==
    Min({params[Frame(i)].maxResults, PairItems - ItemsServed(got[i])})

PairPageOk(i) ==
    /\ pc[i] = "await"
    /\ \E items \in PairItemLists(i, PairRoom(i)), next \in PairCursors(Len(got[i]) + 1) :
          LET resp == Response(FALSE, TRUE, OkStatus, NoErr, items, next)
          IN  /\ got' = [got EXCEPT ![i] = Append(@, resp)]
              /\ comments' = [comments EXCEPT ![Frame(i)] = Accumulate(@, resp.items)]
              /\ IF LastPage(resp.next)
                 THEN /\ pc' = [pc EXCEPT ![i] = "analyze"]
                      /\ params' = params
                 ELSE /\ pc' = [pc EXCEPT ![i] = "request"]
                      /\ params' = [params EXCEPT ![Frame(i)].pageToken = resp.next]
    /\ UNCHANGED <<data, url, vid, sent, compound, df, reply>>

\* Both invocations call the one module-level analyzer, sia, which is a
\* function of the text.
PairAnalyze(i) ==
    /\ pc[i] = "analyze"
    /\ \E polarity \in [Texts -> Scores] :
          LET scores == ScoresOf(comments[Frame(i)], polarity)
              rows == analyze_comments(comments[Frame(i)], scores)
          IN  /\ compound' = [compound EXCEPT ![i] = scores]
              /\ df' = [df EXCEPT ![i] = rows]
              /\ reply' = [reply EXCEPT ![i] =
                              FileReply(rows, DownloadName(FileFormat(data[i])))]
    /\ pc' = [pc EXCEPT ![i] = "done"]
    /\ UNCHANGED <<data, url, vid, params, comments, sent, got>>

NextPair ==
    \/ \E i \in Invocations : PairStartFetch(i)
    \/ \E i \in Invocations : PairSendRequest(i)
    \/ \E i \in Invocations : PairFailure(i)
    \/ \E i \in Invocations : PairPageOk(i)
    \/ \E i \in Invocations : PairAnalyze(i)

SpecPair == InitPair /\ [][NextPair]_vars

(***************************************************************************)
(* Properties                                                              *)
(***************************************************************************)

\* A response that is a page: it arrived, parsed, and has status 200.
IsPage(r) == ~r.raised /\ r.json /\ r.status = OkStatus

\* A response that fails the fetch: a transport failure, an unparseable
\* body, a status other than 200.
Failed(r) == r.raised \/ ~r.json \/ r.status # OkStatus

\* A parsed body with a status other than 200.
ApiFailure(r) == ~r.raised /\ r.json /\ r.status # OkStatus

AllPages == \A i \in DOMAIN got : IsPage(got[i])

\* fetch_all_comments returned its list.
Returned == pc = "analyze" \/ (pc = "done" /\ reply.status = "200")

\* The remote API served a chain of pages of which only the last carries no
\* cursor.
ChainServed ==
    /\ got # <<>>
    /\ AllPages
    /\ \A i \in 1..(Len(got) - 1) : ~Falsy(got[i].next)
    /\ got[Len(got)].next = None

AllComplete ==
    \A i \in DOMAIN got : \A j \in DOMAIN got[i].items : got[i].items[j].complete

\* The display texts of all items of the pages, page by page, item by item.
RECURSIVE DisplayTexts(_)
DisplayTexts(pages) ==
    IF pages = <<>> THEN <<>>
    ELSE [j \in DOMAIN Head(pages).items |-> Head(pages).items[j].textDisplay]
            \o DisplayTexts(Tail(pages))

\* C1: when every page request succeeds and the pages served form a chain of
\* which only the last has no cursor, fetch_all_comments returns exactly the
\* display texts of all items, in page order and item order.
C1_AllTextsInOrder ==
    (ChainServed /\ AllComplete) => (Returned /\ comments = DisplayTexts(got))

C1_Witness ==
    /\ ChainServed /\ AllComplete
    /\ pc = "analyze"
    /\ Len(got) >= 2
    /\ \E i \in DOMAIN got :
          /\ Len(got[i].items) >= 2
          /\ got[i].items[1].textDisplay # got[i].items[2].textDisplay
    /\ got[1].items # <<>> /\ got[2].items # <<>>

\* C2: if the request for page k returns a non-success status whose error
\* payload carries message M, the fetch fails with the API error of message
\* M and the caller receives that single error and none of the comments
\* collected from the pages before.
C2_ApiErrorAllOrNothing ==
    \A i \in DOMAIN got :
        (ApiFailure(got[i]) /\ got[i].error.has_error /\ got[i].error.has_message) =>
            /\ pc = "done"
            /\ reply.status = "500"
            /\ reply.error = <<"YouTube API error: ", got[i].error.message>>
            /\ reply.body = <<>>
            /\ df = <<>>

C2_Witness ==
    /\ Len(got) >= 2
    /\ ApiFailure(got[Len(got)])
    /\ got[Len(got)].error.has_message
    /\ comments # <<>>
    /\ pc = "done"

\* Another request follows the i-th response, or is about to.
RequestFollows(i) == Len(sent) > i \/ (i = Len(got) /\ pc = "request")

\* C3 as stated: the absence of the cursor field is the sole termination
\* signal; a page that carries a cursor is followed by another request, and
\* the loop ends successfully only on a page whose cursor is absent.
C3_AbsentCursorSoleSignal ==
    \A i \in DOMAIN got :
        IsPage(got[i]) => ((got[i].next # None) <=> RequestFollows(i))

\* C3 as amended: a cursor that is absent, null or empty is the sole
\* termination signal.  A page with a non-empty cursor is followed by another
\* request, whatever the number of pages so far; a page without one ends the
\* loop successfully and no request follows it.
C3_FalsyCursorSoleSignal ==
    \A i \in DOMAIN got :
        IsPage(got[i]) =>
            /\ ~Falsy(got[i].next) <=> RequestFollows(i)
            /\ Falsy(got[i].next) =>
                  /\ i = Len(got)
                  /\ Len(sent) = i
                  /\ Returned

C3_Witness ==
    /\ Len(got) >= 2
    /\ got[Len(got)].next = <<>>
    /\ IsPage(got[Len(got)])
    /\ pc = "analyze"

\* The display texts of the items that have one, in their order.
RECURSIVE RemainingTexts(_)
RemainingTexts(pages) ==
    IF pages = <<>> THEN <<>>
    ELSE LET kept == SelectSeq(Head(pages).items, LAMBDA it : it.complete)
         IN  [j \in DOMAIN kept |-> kept[j].textDisplay] \o RemainingTexts(Tail(pages))

\* C4: an item that lacks a field on the way to the display text is skipped
\* without failing the fetch: whatever items of whatever pages are defective,
\* the fetch does not fail and collects the display texts of exactly the
\* other items, in their order.
C4_DefectiveItemsSkipped ==
    (sent # <<>> /\ AllPages) => (reply.status # "500" /\ comments = RemainingTexts(got))

C4_Witness ==
    /\ AllPages
    /\ pc = "analyze"
    /\ \E i \in DOMAIN got :
          /\ Len(got[i].items) >= 2
          /\ ~got[i].items[1].complete
          /\ got[i].items[2].complete
    /\ \E i \in DOMAIN got :
          /\ Len(got[i].items) >= 2
          /\ got[i].items[1].complete
          /\ ~got[i].items[2].complete

\* C5: on a raw input from which no video id can be extracted the pipeline
\* ends with the invalid-id error and issues no request; a request is only
\* ever issued after the extraction gave an id.  (vid is what
\* extract_video_id gave for the raw input: the first conjunct, stated where
\* the extraction has just run.)
C5_NoIdNoRequest ==
    /\ (pc = "fetch" \/ (pc = "done" /\ reply.error = ExtractError)) =>
          /\ url = data.video_url
          /\ vid = extract_video_id(url)
    /\ Falsy(vid) =>
          /\ sent = <<>>
          /\ pc \in {"start", "extract", "done"}
          /\ (pc = "done" /\ Rejection(data) = NoReply) =>
                reply = ErrorReply("400", ExtractError)
    /\ sent # <<>> => (~Falsy(vid) /\ sent[1].videoId = vid)

C5_Witness ==
    /\ pc = "done"
    /\ reply = ErrorReply("400", ExtractError)
    /\ Len(url) > IdLen
    /\ sent = <<>>

\* C6: there is no retry: a response that fails (transport failure,
\* unparseable body, non-success status) is the last one of the invocation,
\* no request is issued after it, and the invocation ends with an error.
C6_NoRetry ==
    \A i \in DOMAIN got :
        Failed(got[i]) =>
            /\ i = Len(got)
            /\ Len(sent) = i
            /\ pc = "done"
            /\ reply.status = "500"

C6_Witness ==
    /\ Len(got) >= 2
    /\ got[Len(got)].raised
    /\ pc = "done"

\* C7: for every successful run the records are as many as the comments
\* collected and the i-th record carries the i-th comment.
C7_RecordsOneToOne ==
    (pc = "done" /\ reply.status = "200") =>
        /\ Len(reply.body) = Len(comments)
        /\ \A i \in DOMAIN comments : reply.body[i].comment = comments[i]

C7_Witness ==
    /\ pc = "done" /\ reply.status = "200"
    /\ Len(got) >= 2
    /\ Len(comments) >= 3
    /\ comments[1] = comments[2]
    /\ comments[1] # comments[3]

\* C8: the label of every comment is 1 exactly when the compound score is
\* >= 0 and 0 exactly when it is < 0; a score of 0 is labeled 1.
C8_LabelThreshold ==
    pc = "done" =>
        /\ Len(df) = Len(compound)
        /\ \A i \in DOMAIN compound :
              /\ df[i].sentiment \in {0, 1}
              /\ df[i].sentiment = 1 <=> compound[i] >= 0
              /\ df[i].sentiment = 0 <=> compound[i] < 0

C8_Witness ==
    /\ pc = "done"
    /\ \E i, j \in DOMAIN compound :
          /\ compound[i] = 0 /\ df[i].sentiment = 1
          /\ compound[j] < 0 /\ df[j].sentiment = 0

\* u is prefix p, then an 11-character token, then suffix q.
ShapeMatches(u, p, q) ==
    /\ Len(u) = Len(p) + IdLen + Len(q)
    /\ SubSeq(u, 1, Len(p)) = p
    /\ TokenAt(u, Len(p) + 1)
    /\ SubSeq(u, Len(p) + IdLen + 1, Len(u)) = q

\* C9: for every 11-character token T and every supported shape carrying T
\* (a bare id; a watch?v=, youtu.be/, /embed/ or /v/ URL, with or without
\* further query parameters after T), extract_video_id returns T.
C9_ShapesGiveToken ==
    pc # "extract" =>
        /\ ShapeMatches(url, <<>>, <<>>) => vid = url
        /\ \A p \in UrlPrefixes, q \in QuerySuffixes \cup {<<>>} :
              ShapeMatches(url, p, q) => vid = SubSeq(url, Len(p) + 1, Len(p) + IdLen)

C9_Witness ==
    /\ pc = "fetch"
    /\ ShapeMatches(url, WatchPrefix, <<"&","v","=","A","A","A","A","A","A","A","A","A","A","A">>)
    /\ vid = <<"_","e","m","b","e","d","Z","0","9","y","o">>

\* A marker of the first pattern occurs in u.
HasMarker(u) ==
    \E i \in 1..Len(u), k \in DOMAIN Markers : LiteralAt(u, i, Markers[k])

\* C10: extract_video_id gives None for the empty string, for an absent
\* input, and for every string of fewer than 11 characters without a marker.
C10_ShortOrEmptyNotFound ==
    pc # "extract" =>
        ((Falsy(url) \/ (Len(url) < IdLen /\ ~HasMarker(url))) => vid = None)

C10_Witness ==
    /\ pc = "done"
    /\ ~Falsy(url)
    /\ Len(url) = IdLen - 1
    /\ \A k \in DOMAIN url : url[k] \in IdChars
    /\ vid = None


\* Some marker alternative followed by 11 id characters occurs in u.
MarkerPatternMatches(u) ==
    \E i \in 1..Len(u), k \in DOMAIN Markers : MarkerMatchAt(u, i, k)

\* v is a string of exactly 11 characters of [A-Za-z0-9_-].
WellFormedId(v) == Len(v) = IdLen /\ \A k \in 1..Len(v) : v[k] \in IdChars

\* C12: whichever pattern gave it, a value that extract_video_id returns as
\* a video id is a string of exactly 11 characters, each of them a letter, a
\* digit, an underscore or a hyphen; and the value with which the handler
\* goes on to the fetcher is such a value, the one extract_video_id returned.
C12_IdWellFormed ==
    pc # "extract" =>
        /\ vid # None => WellFormedId(vid)
        /\ pc = "fetch" => (vid # None /\ WellFormedId(vid))
        /\ pc = "done" => vid = None

\* The second pattern gave the id, out of a longer input.
C12_Witness ==
    /\ pc = "fetch"
    /\ url = <<"i","d",":"," ","d","Q","w","4","w","9","W","g","X","c","Q">>
    /\ vid = <<"d","Q","w","4","w","9","W","g","X","c","Q">>

\* C16: the patterns are tried in order and the first that matches wins.  An
\* input of a URL shape, a marker followed by an 11-character token, gives
\* that token even when the last 11 characters of the input are a different
\* well-formed token; the id is the last 11 characters (before a final
\* newline) only when no marker is followed by 11 id characters anywhere in
\* the input.
C16_FirstPatternWins ==
    (pc # "extract" /\ ~Falsy(url)) =>
        /\ \A p \in UrlPrefixes, q \in QuerySuffixes :
              (ShapeMatches(url, p, q) /\ TokenAt(url, Len(url) - IdLen + 1)) =>
                  vid = SubSeq(url, Len(p) + 1, Len(p) + IdLen)
        /\ MarkerPatternMatches(url) =>
              \E i \in 1..Len(url), k \in DOMAIN Markers :
                  /\ MarkerMatchAt(url, i, k)
                  /\ vid = SubSeq(url, i + Len(Markers[k]), i + Len(Markers[k]) + IdLen - 1)
        /\ (vid # None /\ ~MarkerPatternMatches(url)) =>
              \E e \in EndPositions(url) : vid = SubSeq(url, e - IdLen + 1, e)

\* A short link whose query ends in a different well-formed token.
C16_Witness ==
    /\ pc = "fetch"
    /\ ShapeMatches(url, ShortPrefix, <<"&","v","=","A","A","A","A","A","A","A","A","A","A","A">>)
    /\ vid = <<"d","Q","w","4","w","9","W","g","X","c","Q">>
    /\ SubSeq(url, Len(url) - IdLen + 1, Len(url)) = <<"A","A","A","A","A","A","A","A","A","A","A">>

\* C13: the pages are fetched one after another with the cursor threaded
\* through.  The first request carries no cursor; request n+1 exists only
\* once the response to request n has arrived, parsed and been accepted as
\* a page, and it carries exactly the cursor of that response; at no time is
\* more than one request without its response, and one is exactly while the
\* loop waits in session.get.
C13_SequentialCursorThreaded ==
    /\ sent # <<>> => sent[1].pageToken = None
    /\ \A n \in 1..(Len(sent) - 1) :
          /\ n <= Len(got)
          /\ IsPage(got[n])
          /\ ~Falsy(got[n].next)
          /\ sent[n + 1].pageToken = got[n].next
    /\ Len(got) <= Len(sent)
    /\ Len(sent) <= Len(got) + 1
    /\ Len(sent) = Len(got) + 1 <=> pc = "await"

\* The third request is out, with the cursor of the second page.
C13_Witness ==
    /\ pc = "await"
    /\ Len(sent) = 3
    /\ Len(got) = 2
    /\ sent[2].pageToken = Token(1)
    /\ sent[3].pageToken = Token(2)

\* C14: a response whose body does not parse fails the fetch with the
\* invalid-response error, whatever its status code and however many
\* comments the pages before it gave; the body is parsed before the status
\* is looked at, so with a non-200 status the error is still the
\* invalid-response error and not an API error.
C14_UnparseableIsInvalidResponse ==
    \A i \in DOMAIN got :
        (~got[i].raised /\ ~got[i].json) =>
            /\ i = Len(got)
            /\ Len(sent) = Len(got)
            /\ pc = "done"
            /\ reply = ErrorReply("500", <<"Invalid JSON response from YouTube API">>)

\* An unparseable body with status 403, after a page that gave comments.
C14_Witness ==
    /\ pc = "done"
    /\ Len(got) >= 2
    /\ comments # <<>>
    /\ ~got[Len(got)].raised
    /\ ~got[Len(got)].json
    /\ got[Len(got)].status = "403"
    /\ reply.error = <<"Invalid JSON response from YouTube API">>

\* C15: a response with a status other than 200 and a body that parses
\* fails the fetch with the API error.  When the body has no error payload,
\* or the payload has no message, the message is "HTTP " and the status code
\* of that response.  The response is never taken for a page: it is the last
\* one, no request follows it, and the accumulator holds what the pages
\* before it gave and nothing of what this body holds.
C15_NonSuccessIsApiError ==
    \A i \in DOMAIN got :
        ApiFailure(got[i]) =>
            /\ i = Len(got)
            /\ Len(sent) = Len(got)
            /\ pc = "done"
            /\ reply.status = "500"
            /\ reply.body = <<>>
            /\ reply.error[1] = "YouTube API error: "
            /\ ~(got[i].error.has_error /\ got[i].error.has_message) =>
                  reply.error = <<"YouTube API error: ", "HTTP ", got[i].status>>
            /\ comments = RemainingTexts(SubSeq(got, 1, i - 1))

\* A 403 without a message, its body holding an item and a cursor, after a
\* page that gave a comment.
C15_Witness ==
    /\ pc = "done"
    /\ Len(got) = 2
    /\ ApiFailure(got[2])
    /\ ~got[2].error.has_error
    /\ got[2].items # <<>>
    /\ ~Falsy(got[2].next)
    /\ comments # <<>>
    /\ reply.error = <<"YouTube API error: ", "HTTP ", "403">>

\* C18: every request of an invocation carries the video id, the key, the
\* page size, the part and the text format of the first request, which are
\* those fetch_all_comments was called with; from one request to the next
\* the cursor is the only parameter that changes.
C18_OnlyCursorChanges ==
    \A n \in DOMAIN sent :
        /\ sent[n].videoId = vid
        /\ sent[n].key = data.api_key
        /\ sent[n].maxResults = MaxResultsPerPage
        /\ sent[n].part = "snippet"
        /\ sent[n].textFormat = "plainText"
        /\ [sent[n] EXCEPT !.pageToken = None] = sent[1]
        /\ DOMAIN sent[n] = DOMAIN sent[1]

\* Three requests, their cursors all different.
C18_Witness ==
    /\ Len(sent) = 3
    /\ sent[2].pageToken # sent[1].pageToken
    /\ sent[3].pageToken # sent[2].pageToken
    /\ sent[3].videoId = sent[1].videoId

\* The format of the payload is one the handler supports: csv, json, xlsx or
\* html in whatever case, or none given (csv then).
FormatSupported(f) == Falsy(f) \/ (f # JsonNumber /\ Lower(f) \in SupportedFormats)

\* One of the payload checks of the handler has to fail.
BadPayload(d) ==
    \/ d.json # "object"
    \/ Falsy(d.api_key)
    \/ Falsy(d.video_url)
    \/ ~FormatSupported(d.format)

\* C19: when the JSON payload is missing or invalid, api_key is missing,
\* video_url is missing, or the format is not one of csv, json, xlsx, html
\* (none given counts as csv), the handler answers with a 400 error and no
\* request goes to the remote API; a first request goes out only after all
\* these checks and the id extraction have passed.
C19_RejectedBeforeRequest ==
    /\ BadPayload(data) =>
          /\ sent = <<>>
          /\ pc \in {"start", "done"}
          /\ pc = "done" => (reply.status = "400" /\ reply.body = <<>>)
    /\ sent # <<>> =>
          /\ ~BadPayload(data)
          /\ ~Falsy(vid)
          /\ vid = extract_video_id(data.video_url)

\* C17: with every request answered or timed out, and the remote API's
\* chain of cursors finite, every invocation finishes: it replies with the
\* file or with an error.  The loop issues exactly one request for each page
\* it is served, and goes from a response to a next request in one way only:
\* the response is a page that carries a cursor.
C17_Terminates ==
    /\ <>(pc = "done" /\ reply.status \in {"200", "400", "500"})
    /\ [](Returned => (AllPages /\ Len(sent) = Len(got)))
    /\ [][(pc = "await" /\ pc' = "request") =>
            /\ Len(got') = Len(got) + 1
            /\ IsPage(got'[Len(got')])
            /\ ~Falsy(got'[Len(got')].next)
            /\ Len(sent') = Len(got')]_vars

\* The longest chain was fetched to its end and the file sent.
C17_Witness ==
    /\ pc = "done"
    /\ reply.status = "200"
    /\ Len(sent) = MaxPages
    /\ Len(got) = MaxPages

\* The reply of an invocation that runs alone with payload d, is served
\* the responses of the sequence one after another and is given the scores.
SoloReply(d, responses, scores) ==
    LET last == responses[Len(responses)]
        texts == RemainingTexts(responses)
    IN  IF last.raised THEN ErrorReply("500", <<"transport failure">>)
        ELSE IF ~last.json
             THEN ErrorReply("500", <<"Invalid JSON response from YouTube API">>)
        ELSE IF last.status # OkStatus
             THEN ErrorReply("500", <<"YouTube API error: ">> \o ErrorMessage(last))
        ELSE FileReply([j \in DOMAIN texts |->
                           [comment |-> texts[j],
                            sentiment |-> IF scores[j] >= 0 THEN 1 ELSE 0]],
                       DownloadName(FileFormat(d)))

\* SoloReply is what the handler replies when it runs alone.
SoloReplyAlone ==
    (pc = "done" /\ got # <<>>) => reply = SoloReply(data, got, compound)

\* C11: two invocations interleaved in any order do not touch each other's
\* accumulator, cursor or request parameters.  Every request of an
\* invocation carries its own video id and key and the cursor of its own
\* last page, and its reply, the records or the error, is the reply it
\* gives when it runs alone and is served the same responses.
C11_InvocationsIsolated ==
    \A i \in Invocations :
        /\ \A n \in DOMAIN sent[i] :
              /\ sent[i][n].videoId = vid[i]
              /\ sent[i][n].key = data[i].api_key
              /\ sent[i][n].pageToken = IF n = 1 THEN None ELSE got[i][n - 1].next
        /\ pc[i] = "analyze" => Len(sent[i]) = Len(got[i])
        /\ pc[i] = "done" =>
              /\ Len(sent[i]) = Len(got[i])
              /\ reply[i] = SoloReply(data[i], got[i], compound[i])

\* The first invocation has sent its file, made of two pages, while the
\* second, started before the first got its last page, waits for its second
\* page.
C11_Witness ==
    /\ pc[1] = "done"
    /\ reply[1].status = "200"
    /\ Len(got[1]) = 2
    /\ Len(reply[1].body) = 2
    /\ pc[2] = "await"
    /\ Len(got[2]) = 1
    /\ got[2][1].items # <<>>
=============================================================================
